---- MODULE Spec2Model ----
(***************************************************************************)
(* One user turn through the LangGraph orchestrator of                     *)
(* src/src/workflows/agentic_workflow.py: the conditional entry point, the *)
(* eight nodes, the two conditional edges behind RelevanceGrader and       *)
(* AnswerGenerator, and the GraphState they read and write.                *)
(*                                                                         *)
(* Strings whose characters the code inspects (questions, binary_score     *)
(* labels) are sequences of one-character strings, so that lower(),        *)
(* strip() and startswith() are computed character by character.           *)
(***************************************************************************)
EXTENDS Integers, Sequences, FiniteSets, TLC

VARIABLES
    node,                           \* the node or edge function that runs next
    prev,                           \* the node or edge function that ran last
    question,                       \* GraphState.question
    original_question,              \* GraphState.original_question (None: key absent)
    documents,                      \* GraphState.documents (None: key absent)
    generation,                     \* GraphState.generation (None: key absent)
    checker_result,                 \* GraphState.checker_result (None: key absent)
    hallucination_checker_attempts, \* GraphState counter (None: key absent)
    answer_verifier_attempts,       \* GraphState counter (None: key absent)
    parsed_router_output,           \* route_question: the classifier's Datasource
    route,                          \* route_question: the value it returned
    grade_input,                    \* grade_documents_parallel: local documents
    results,                        \* grade_documents_parallel: local results
    hallucination_checker_result,   \* check_generation...: grounding binary_score
    answer_verifier_result,         \* check_generation...: usefulness binary_score
    checks,                         \* history: one record per verification of a generation
    generator_runs,                 \* history: executions of AnswerGenerator
    turn_question,                  \* inputs["question"] of the turn
    graded_pass,                    \* history: documents graded pass since the last retrieval
    store_answers,                  \* document_retriever: what retriever.invoke does per query
    per_query_docs,                 \* document_retriever: local per_query_docs
    rag_fusion_mmr_results,         \* document_retriever: local rag_fusion_mmr_results
    tasks,                          \* grade_documents_parallel: the grading tasks
    completed,                      \* history: the tasks in the order they completed
    raised,                         \* the exception ainvoke raises (None: none)
    turns,                          \* the GraphState of each of two concurrent turns
    running,                        \* history: the turn whose node ran last
    alone,                          \* history: each turn's state had it run by itself
    profile,                        \* answer_generator: what the profile lookup did
    chat_history_context,           \* answer_generator: local chat_history_context
    used_question,                  \* the local question of the node that ran last
    rewriter_runs,                  \* history: executions of QueryRewriter
    retriever_runs                  \* history: executions of DocumentRetriever

\* the state of two turns that run at the same time
concurrent_turns == <<turns, running, alone>>

\* what the node that ran last put into its prompt
prompt_inputs == <<profile, chat_history_context, used_question>>

\* how often the rewriter and the retriever have run in the turn
node_runs == <<rewriter_runs, retriever_runs>>

vars == <<node, prev, question, original_question, documents, generation,
          checker_result, hallucination_checker_attempts,
          answer_verifier_attempts, parsed_router_output, route, grade_input,
          results, hallucination_checker_result, answer_verifier_result,
          checks, generator_runs, turn_question, graded_pass,
          store_answers, per_query_docs, rag_fusion_mmr_results,
          tasks, completed, raised, concurrent_turns, node_runs, prompt_inputs>>

\* the grading tasks of grade_documents_parallel
grader_tasks == <<tasks, completed>>

\* the locals of document_retriever
retriever_locals == <<store_answers, per_query_docs, rag_fusion_mmr_results>>

----------------------------------------------------------------------------
(* Bounds of the model *)

\* documents a retrieval returns within a turn
MaxRetrieved == 2
\* documents handed to the relevance grader in GradeSpec
MaxGraded == 5
\* results one web search contributes
MaxWebResults == 2
\* ceiling of the history counter generator_runs
MaxGeneratorRuns == 7
\* result lists handed to the rank fusion in FusionSpec
MaxFusedLists == 4
\* queries the query model returns in RetrieveSpec
MaxQueries == 2
\* documents graded by concurrent tasks in ConcurrentGradeSpec
MaxConcurrent == 3

----------------------------------------------------------------------------
(* A dictionary key that may be absent: <<>> is absent, <<v>> holds v *)

None == <<>>
Some(v) == <<v>>

\* state.get(key, default)
Get(o, default) == IF o = None THEN default ELSE o[1]

Range(s) == {s[i] : i \in DOMAIN s}

----------------------------------------------------------------------------
(* Python string methods used by the workflow *)

UpperChars == <<"A","B","C","D","E","F","G","H","I","J","K","L","M",
                "N","O","P","Q","R","S","T","U","V","W","X","Y","Z">>
LowerChars == <<"a","b","c","d","e","f","g","h","i","j","k","l","m",
                "n","o","p","q","r","s","t","u","v","w","x","y","z">>
Whitespace == {" ", "\t", "\n"}

lower_char(c) ==
    IF \E i \in DOMAIN UpperChars : UpperChars[i] = c
    THEN LowerChars[CHOOSE i \in DOMAIN UpperChars : UpperChars[i] = c]
    ELSE c

\* str.lower()
lower(s) == [i \in DOMAIN s |-> lower_char(s[i])]

RECURSIVE lstrip(_)
lstrip(s) ==
    IF s # <<>> /\ Head(s) \in Whitespace THEN lstrip(Tail(s)) ELSE s

RECURSIVE rstrip(_)
rstrip(s) ==
    IF s # <<>> /\ s[Len(s)] \in Whitespace
    THEN rstrip(SubSeq(s, 1, Len(s) - 1))
    ELSE s

\* str.strip()
strip(s) == rstrip(lstrip(s))

\* str.startswith(prefix)
startswith(s, prefix) ==
    /\ Len(s) >= Len(prefix)
    /\ SubSeq(s, 1, Len(prefix)) = prefix

----------------------------------------------------------------------------
(* Python floats of the fused scores: IEEE 754 binary64, round to nearest, *)
(* ties to even. A float is written <<d2, d1, d0>>, three digits to the    *)
(* base 2^20, and is worth d2 * 2^40 + d1 * 2^20 + d0 units of 2^-60. The  *)
(* floats that occur are 0 and the floats from 2^-8 up to below 2^-1: they *)
(* are whole numbers of units, and their 53-bit significand makes the last *)
(* place of a float with d2 in [2^12, 2^13) worth one unit.                *)

FloatBase == 1048576

fl_zero == <<0, 0, 0>>

\* the digits of a sum of digit rows
fl_carry(d) ==
    LET low == d[3] % FloatBase
        mid == d[2] + (d[3] \div FloatBase)
    IN  <<d[1] + (mid \div FloatBase), mid % FloatBase, low>>

\* units in the last place of a float whose leading digit is d2
RECURSIVE fl_ulp(_)
fl_ulp(d2) == IF d2 < 8192 THEN 1 ELSE 2 * fl_ulp(d2 \div 2)

\* the float nearest to d + num / den units (0 <= num < den), ties to even
fl_round(d, num, den) ==
    LET ulp == fl_ulp(d[1])
        rest == d[3] % ulp
        twice == 2 * (rest * den + num)
        up == \/ twice > ulp * den
              \/ twice = ulp * den /\ (d[3] \div ulp) % 2 = 1
    IN  fl_carry(<<d[1], d[2], (d[3] - rest) + (IF up THEN ulp ELSE 0)>>)

\* 1 / n for an int n in 3..255: the quotient digit by digit, then rounded
fl_reciprocal(n) ==
    LET q2 == FloatBase \div n
        r2 == FloatBase % n
        q1 == (r2 * FloatBase) \div n
        r1 == (r2 * FloatBase) % n
        q0 == (r1 * FloatBase) \div n
        r0 == (r1 * FloatBase) % n
    IN  fl_round(<<q2, q1, q0>>, r0, n)

\* a + b
fl_add(a, b) ==
    fl_round(fl_carry(<<a[1] + b[1], a[2] + b[2], a[3] + b[3]>>), 0, 1)

\* a > b
fl_greater(a, b) ==
    \/ a[1] > b[1]
    \/ a[1] = b[1] /\ a[2] > b[2]
    \/ a[1] = b[1] /\ a[2] = b[2] /\ a[3] > b[3]

----------------------------------------------------------------------------
(* Inputs of a turn *)

WhoIsTheTA ==
    <<"W","h","o"," ","i","s"," ","t","h","e"," ","T","A"," ","f","o","r",
      " ","l","a","b"," ","t","u","t","o","r","i","n","g","?">>

\* prompts the chat input can hand over: never the empty string
UserQuestions ==
    { WhoIsTheTA,
      <<" ","W","H","A","T","?">>,
      <<"W","h","y","?">> }

\* rewritten_question values the rewriter model may return
RewrittenQuestions ==
    { <<"w","h","e","n"," ","i","s"," ","i","t">>,
      <<"e","x","p","l","a","i","n">> }

\* Datasource values the router model may return
RouterLabels ==
    { "Websearch", "Vectorstore", "Simple-FAQ", "Chitter-Chatter",
      "websearch", "Database" }

\* binary_score values a grader or verifier may return
BinaryScores ==
    { <<"p","a","s","s">>, <<"P","A","S","S">>,
      <<"f","a","i","l">>, <<"n","/","a">> }

\* the text a model call returned: who produced it, and in which call
Text(by, n) == [by |-> by, call |-> n]

KBDoc(i) == [source |-> "kb", id |-> i]
WebDoc(i) == [source |-> "web", id |-> i]

----------------------------------------------------------------------------
(* Pure parts of the nodes and edge functions *)

\* a comparison that takes every label but "fail" for a pass
IsPass_unless_fail(score) == lower(score) # <<"f","a","i","l">>

\* score["binary_score"].lower() == "pass"
IsPass(score) == lower(score) = <<"p","a","s","s">>

\* route_question failing open: an unknown Datasource goes to retrieval
route_question_fail_open(label) ==
    IF label = "Websearch" THEN "Websearch"
    ELSE IF label = "Vectorstore" THEN "Vectorstore"
    ELSE IF label \in {"Simple-FAQ", "Chitter-Chatter"} THEN "Chitter-Chatter"
    ELSE "Vectorstore"

\* route_question: the route for the classifier's Datasource
route_question(label) ==
    IF label = "Websearch" THEN "Websearch"
    ELSE IF label = "Vectorstore" THEN "Vectorstore"
    ELSE IF label \in {"Simple-FAQ", "Chitter-Chatter"} THEN "Chitter-Chatter"
    ELSE "Chitter-Chatter"

\* set_conditional_entry_point: route -> node
entry_point(r) ==
    CASE r = "Websearch" -> "WebSearcher"
      [] r = "Vectorstore" -> "DocumentRetriever"
      [] r = "Chitter-Chatter" -> "ChitterChatter"

\* trackers that return the count they read
tracker_without_increment(attempts) == Get(attempts, 0)
answer_tracker_without_increment(attempts) == Get(attempts, 0)

\* hallucination_checker_tracker / answer_verifier_tracker
hallucination_checker_tracker(attempts) == Get(attempts, 0) + 1
answer_verifier_tracker(attempts) == Get(attempts, 0) + 1

\* a join that lists the results in the order the tasks completed
gather_as_completed(task_results, order) ==
    [k \in DOMAIN order |-> task_results[order[k]]]

\* asyncio.gather: the results in the order of the tasks it was handed,
\* whatever the order in which they completed
gather(task_results, order) == task_results

\* 0.3, the share of filtered-out documents from which grading fails
FailThresholdNum == 3
FailThresholdDen == 10

\* grading that appends every document, whatever its score
filtered_docs_keep_all(docs, res) == docs

\* grade_documents_parallel: the documents whose binary_score is pass
filtered_docs(docs, res) ==
    LET F[i \in 0..Len(docs)] ==
            IF i = 0 THEN <<>>
            ELSE IF IsPass(res[i]) THEN Append(F[i - 1], docs[i])
            ELSE F[i - 1]
    IN  F[Len(docs)]

\* the verdict with the legacy docstring's threshold of 0.5
grade_verdict_half(total_docs, relevant_docs) ==
    IF total_docs > 0
    THEN IF 2 * (total_docs - relevant_docs) >= total_docs
         THEN "fail" ELSE "pass"
    ELSE "fail"

\* grade_documents_parallel: checker_result from the two counts.
\* (total - relevant) / total >= 0.3 in floating point agrees with the
\* integer comparison for every total below 10^15.
grade_verdict(total_docs, relevant_docs) ==
    IF total_docs > 0
    THEN IF FailThresholdDen * (total_docs - relevant_docs)
              >= FailThresholdNum * total_docs
         THEN "fail" ELSE "pass"
    ELSE "fail"

faq_keywords ==
    << <<"w","h","o">>, <<"w","h","a","t">>,
       <<"w","h","e","n">>, <<"w","h","e","r","e">> >>

\* the heuristic applied to the current question only
current_question_only(orig, q) == q

\* state.get("original_question") or state.get("question", "")
original_or_question(orig, q) ==
    IF orig = None \/ orig[1] = <<>> THEN q ELSE orig[1]

\* decide_to_generate_or_assess: the value it returns
decide_to_generate_or_assess(verdict, orig, q) ==
    IF verdict = "pass" THEN "generate"
    ELSE IF \E lowered \in {lower(original_or_question(orig, q))} :
                \E stripped \in {strip(lowered)} :
                    \E k \in DOMAIN faq_keywords :
                        startswith(stripped, faq_keywords[k])
         THEN "Chitter-Chatter"
         ELSE "Websearch"

\* the static edges with the retriever wired straight to the generator
edge_skips_grading(n) ==
    CASE n = "DocumentRetriever" -> "AnswerGenerator"
      [] n = "WebSearcher" -> "AnswerGenerator"
      [] n = "HallucinationCheckerFailed" -> "AnswerGenerator"
      [] n = "AnswerVerifierFailed" -> "QueryRewriter"
      [] n = "QueryRewriter" -> "DocumentRetriever"
      [] n = "ChitterChatter" -> "END"

\* the static edges with web results sent through the grader
edge_grades_web_results(n) ==
    CASE n = "DocumentRetriever" -> "RelevanceGrader"
      [] n = "WebSearcher" -> "RelevanceGrader"
      [] n = "HallucinationCheckerFailed" -> "AnswerGenerator"
      [] n = "AnswerVerifierFailed" -> "QueryRewriter"
      [] n = "QueryRewriter" -> "DocumentRetriever"
      [] n = "ChitterChatter" -> "END"

\* the static edges with a grounding failure sent back to retrieval
edge_retrieves_again(n) ==
    CASE n = "DocumentRetriever" -> "RelevanceGrader"
      [] n = "WebSearcher" -> "AnswerGenerator"
      [] n = "HallucinationCheckerFailed" -> "DocumentRetriever"
      [] n = "AnswerVerifierFailed" -> "QueryRewriter"
      [] n = "QueryRewriter" -> "DocumentRetriever"
      [] n = "ChitterChatter" -> "END"

\* add_edge(n, ...): the node behind n
edge(n) ==
    CASE n = "DocumentRetriever" -> "RelevanceGrader"
      [] n = "WebSearcher" -> "AnswerGenerator"
      [] n = "HallucinationCheckerFailed" -> "AnswerGenerator"
      [] n = "AnswerVerifierFailed" -> "QueryRewriter"
      [] n = "QueryRewriter" -> "DocumentRetriever"
      [] n = "ChitterChatter" -> "END"

\* add_conditional_edges("RelevanceGrader", ...)
grader_edge(r) ==
    CASE r = "generate" -> "AnswerGenerator"
      [] r = "Websearch" -> "WebSearcher"
      [] r = "Chitter-Chatter" -> "ChitterChatter"

\* the check with "> 0" as the ceiling: one retry per failure class
check_generation_one_retry(hres, ares, h_attempts, a_attempts) ==
    IF IsPass(hres)
    THEN IF IsPass(ares) THEN "useful"
         ELSE IF Get(a_attempts, 0) > 0 THEN "max retries"
         ELSE "not useful"
    ELSE IF Get(h_attempts, 0) > 0 THEN "max retries"
    ELSE "not supported"

\* the check with "> 2" as the ceiling: three retries per failure class
check_generation_three_retries(hres, ares, h_attempts, a_attempts) ==
    IF IsPass(hres)
    THEN IF IsPass(ares) THEN "useful"
         ELSE IF Get(a_attempts, 0) > 2 THEN "max retries"
         ELSE "not useful"
    ELSE IF Get(h_attempts, 0) > 2 THEN "max retries"
    ELSE "not supported"

\* the check with "> 2" as the ceiling of the grounding failures only
check_generation_lenient_grounding(hres, ares, h_attempts, a_attempts) ==
    IF IsPass(hres)
    THEN IF IsPass(ares) THEN "useful"
         ELSE IF Get(a_attempts, 0) > 1 THEN "max retries"
         ELSE "not useful"
    ELSE IF Get(h_attempts, 0) > 2 THEN "max retries"
    ELSE "not supported"

\* check_generation_vs_documents_and_question: the value it returns
check_generation_vs_documents_and_question(hres, ares, h_attempts, a_attempts) ==
    IF IsPass(hres)
    THEN IF IsPass(ares) THEN "useful"
         ELSE IF Get(a_attempts, 0) > 1 THEN "max retries"
         ELSE "not useful"
    ELSE IF Get(h_attempts, 0) > 1 THEN "max retries"
    ELSE "not supported"

\* a verification that calls both verifiers whatever grounding returned
verifier_calls_both(hres) == <<"hallucination_checker", "answer_verifier">>

\* check_generation_vs_documents_and_question: the verifier calls it
\* makes, in the order it makes them, given the grounding binary_score
verifier_calls(hres) ==
    IF IsPass(hres)
    THEN <<"hallucination_checker", "answer_verifier">>
    ELSE <<"hallucination_checker">>

\* the edges with "not supported" wired to the rewrite branch
generator_edge_miswired(r) ==
    CASE r = "not supported" -> "AnswerVerifierFailed"
      [] r = "useful" -> "END"
      [] r = "not useful" -> "AnswerVerifierFailed"
      [] r = "max retries" -> "ChitterChatter"

\* the edges with an exhausted retry budget wired to END
generator_edge_ends_at_max_retries(r) ==
    CASE r = "not supported" -> "HallucinationCheckerFailed"
      [] r = "useful" -> "END"
      [] r = "not useful" -> "AnswerVerifierFailed"
      [] r = "max retries" -> "END"

\* add_conditional_edges("AnswerGenerator", ...)
generator_edge(r) ==
    CASE r = "not supported" -> "HallucinationCheckerFailed"
      [] r = "useful" -> "END"
      [] r = "not useful" -> "AnswerVerifierFailed"
      [] r = "max retries" -> "ChitterChatter"

\* a rewriter that stores the question it was handed as the original
query_rewriter_overwrites_original(orig, q, rewritten_question) ==
    [question |-> rewritten_question, original_question |-> q]

\* query_rewriter: the state update it returns
query_rewriter(orig, q, rewritten_question) ==
    [question |-> rewritten_question,
     original_question |-> IF orig # None THEN orig[1] ELSE q]

\* what web_search_tool.invoke may return: a string, a list of n results,
\* or another value (a dict, None)
WebResults ==
    {[type |-> "str", n |-> 0], [type |-> "other", n |-> 0]}
        \cup {[type |-> "list", n |-> k] : k \in 0..MaxWebResults}

\* a formatting that returns no entry for an empty result list
formatted_web_results_plain(web_results) ==
    IF web_results.type = "str" THEN 1
    ELSE IF web_results.type = "list" THEN web_results.n
    ELSE 1

\* web_search: the number of entries of formatted_web_results
formatted_web_results(web_results) ==
    IF web_results.type = "str" THEN 1
    ELSE IF web_results.type = "list" /\ web_results.n > 0 THEN web_results.n
    ELSE 1

\* a web search that replaces the documents by its results
web_search_replaces(docs, n) == [i \in 1..n |-> WebDoc(i)]

\* web_search: the documents it returns for n formatted web results
web_search(docs, n) == Get(docs, <<>>) \o [i \in 1..n |-> WebDoc(i)]

\* chat_history_context when no profile text is at hand
NoProfileContext ==
    [heading |-> "No profile context available.", text |-> ""]

\* what get_profile_text_summary (and its import) may do: raise, return
\* None, return an empty text, return a summary
ProfileLookups ==
    { [raised |-> TRUE, text |-> None],
      [raised |-> FALSE, text |-> None],
      [raised |-> FALSE, text |-> Some("")],
      [raised |-> FALSE, text |-> Some("prefers worked examples")] }

\* the profile lookup without the try: its exception leaves the node
answer_generator_context_unguarded(lookup) ==
    IF lookup.raised THEN None
    ELSE IF lookup.text # None /\ lookup.text[1] # ""
    THEN Some([heading |-> "Student Learning Profile:",
               text |-> lookup.text[1]])
    ELSE Some(NoProfileContext)

\* answer_generator: chat_history_context after the guarded profile lookup
\* (None: the lookup's exception leaves the node)
answer_generator_context(lookup) ==
    IF lookup.raised THEN Some(NoProfileContext)
    ELSE IF lookup.text # None /\ lookup.text[1] # ""
    THEN Some([heading |-> "Student Learning Profile:",
               text |-> lookup.text[1]])
    ELSE Some(NoProfileContext)

\* a generator that answers the current question
answer_generator_question_current(orig, q) == q

\* answer_generator: original_question if original_question != 0 else question
answer_generator_question(orig, q) == IF orig # None THEN orig[1] ELSE q

\* check_generation...: state.get("original_question", state["question"])
verifier_question(orig, q) == IF orig # None THEN orig[1] ELSE q

\* a fallback that answers the question the user asked
chitter_chatter_question_original(orig, q) == IF orig # None THEN orig[1] ELSE q

\* chitter_chatter: state["question"]
chitter_chatter_question(orig, q) == q

----------------------------------------------------------------------------
(* Retrieval with rank fusion *)

\* k of reciprocal_rank_fusion
RrfK == 60
\* k of the MMR retriever: the documents one query returns at most
MmrK == 3
\* the fused documents the retriever keeps
TopK == 5

\* the documents of the vector store, each standing for its serialized
\* page_content and metadata: dumps() of two documents is the same string
\* exactly if they are the same document here
StoreDocs == {KBDoc(1), KBDoc(2), KBDoc(3)}

\* the lists retriever.invoke may return for one query
ResultLists ==
    {l \in UNION {[1..n -> StoreDocs] : n \in 0..MmrK} :
        \A i, j \in DOMAIN l : i # j => l[i] # l[j]}

\* a vector store with more documents than the retriever keeps
WideStoreDocs == {KBDoc(i) : i \in 1..(TopK + 1)}

\* the lists retriever.invoke may return for one query to the wide store
WideResultLists ==
    {l \in UNION {[1..n -> WideStoreDocs] : n \in 0..MmrK} :
        \A i, j \in DOMAIN l : i # j => l[i] # l[j]}

\* what retriever.invoke does for one query: it raises, or returns a list
Raised == [raised |-> TRUE, docs |-> <<>>]
Returned(l) == [raised |-> FALSE, docs |-> l]

\* the two loops of reciprocal_rank_fusion: fused_scores after the lists
\* lists[1..n] of results and the first m documents of lists[n + 1], as the
\* (doc_str, score) items of the dict in insertion order
RECURSIVE fused_scores(_, _, _)
fused_scores(lists, n, m) ==
    IF n = 0 /\ m = 0 THEN <<>>
    ELSE IF m = 0 THEN fused_scores(lists, n - 1, Len(lists[n]))
    ELSE LET before == fused_scores(lists, n, m - 1)
             doc_str == lists[n + 1][m]
             rank == (m - 1) + 1
             term == fl_reciprocal(rank + RrfK)
             at == {i \in DOMAIN before : before[i].doc = doc_str}
         IN  IF at = {}
             THEN Append(before, [doc |-> doc_str,
                                  rrf_score |-> fl_add(fl_zero, term)])
             ELSE [i \in DOMAIN before |->
                      IF i \in at
                      THEN [doc |-> doc_str,
                            rrf_score |-> fl_add(before[i].rrf_score, term)]
                      ELSE before[i]]

\* sorted(items, key=score, reverse=True): a stable sort, so an item comes
\* behind the items of greater score and the earlier items of equal score
sorted_by_score_reverse(items) ==
    LET place(i) ==
            Cardinality({j \in DOMAIN items :
                \/ fl_greater(items[j].rrf_score, items[i].rrf_score)
                \/ j < i /\ items[j].rrf_score = items[i].rrf_score}) + 1
    IN  [p \in DOMAIN items |->
            items[CHOOSE i \in DOMAIN items : place(i) = p]]

\* reciprocal_rank_fusion: the documents with their rrf_score
reciprocal_rank_fusion(lists) ==
    sorted_by_score_reverse(
        IF lists = <<>> THEN <<>>
        ELSE fused_scores(lists, Len(lists) - 1,
                          Len(lists[Len(lists)])))

\* a loop that ends at the first query that raises
per_query_until_raised(answers) ==
    LET first == {i \in DOMAIN answers :
                    answers[i].raised /\ \A j \in 1..(i - 1) : ~answers[j].raised}
        last == IF first = {} THEN Len(answers)
                ELSE (CHOOSE i \in first : TRUE) - 1
    IN  [i \in 1..last |-> answers[i].docs]

\* document_retriever: per_query_docs for what the store did per query
per_query(answers) ==
    LET kept == SelectSeq(answers, LAMBDA a : ~a.raised)
    IN  [i \in DOMAIN kept |-> kept[i].docs]

\* a retriever that returns the whole fused list
formatted_doc_results_untruncated(fused) ==
    [i \in DOMAIN fused |-> fused[i].doc]

\* document_retriever: top_k_results without the rrf_score
formatted_doc_results(fused) ==
    [i \in 1..(IF Len(fused) < TopK THEN Len(fused) ELSE TopK) |-> fused[i].doc]

----------------------------------------------------------------------------
(* The turn *)

Init ==
    /\ turn_question \in UserQuestions
    /\ question = turn_question
    /\ node = "route_question"
    /\ prev = "START"
    /\ original_question = None
    /\ documents = None
    /\ generation = None
    /\ checker_result = None
    /\ hallucination_checker_attempts = None
    /\ answer_verifier_attempts = None
    /\ parsed_router_output = None
    /\ route = None
    /\ grade_input = None
    /\ results = None
    /\ hallucination_checker_result = None
    /\ answer_verifier_result = None
    /\ checks = <<>>
    /\ generator_runs = 0
    /\ graded_pass = {}
    /\ store_answers = None
    /\ per_query_docs = None
    /\ rag_fusion_mmr_results = None
    /\ tasks = None
    /\ completed = None
    /\ raised = None
    /\ turns = None
    /\ running = None
    /\ alone = None
    /\ profile = None
    /\ chat_history_context = None
    /\ used_question = None
    /\ rewriter_runs = 0
    /\ retriever_runs = 0

\* the conditional entry point
RouteQuestion ==
    /\ node = "route_question"
    /\ \E label \in RouterLabels :
        /\ parsed_router_output' = Some(label)
        /\ route' = Some(route_question(label))
        /\ node' = entry_point(route_question(label))
    /\ prev' = node
    /\ used_question' = Some(question)
    /\ UNCHANGED <<question, original_question, documents, generation,
                   checker_result, hallucination_checker_attempts,
                   answer_verifier_attempts, grade_input, results,
                   hallucination_checker_result, answer_verifier_result,
                   checks, generator_runs, turn_question, graded_pass,
                   retriever_locals, grader_tasks, raised,
                   concurrent_turns, node_runs, profile,
                   chat_history_context>>

\* node DocumentRetriever, then the edge to RelevanceGrader. What the query
\* model and the vector store answer decides the list; it holds no document
\* twice (fusion keys on the serialized document) and its documents are
\* named here by their rank in it.
DocumentRetriever ==
    /\ node = "DocumentRetriever"
    /\ \E n \in 0..MaxRetrieved :
        documents' = Some([i \in 1..n |-> KBDoc(i)])
    /\ graded_pass' = {}
    /\ node' = edge(node)
    /\ prev' = node
    /\ retriever_runs' = retriever_runs + 1
    /\ UNCHANGED rewriter_runs
    /\ used_question' = Some(question)
    /\ UNCHANGED <<question, original_question, generation, checker_result,
                   hallucination_checker_attempts, answer_verifier_attempts,
                   parsed_router_output, route, grade_input, results,
                   hallucination_checker_result, answer_verifier_result,
                   checks, generator_runs, turn_question, retriever_locals,
                   grader_tasks, raised,
                   concurrent_turns, profile,
                   chat_history_context>>

\* node RelevanceGrader; the retriever's locals end here
RelevanceGrader ==
    /\ node = "RelevanceGrader"
    /\ \E res \in [DOMAIN documents[1] -> BinaryScores] :
        LET docs == documents[1]
            kept == filtered_docs(docs, res)
        IN  /\ grade_input' = Some(docs)
            /\ results' = Some(res)
            /\ documents' = Some(kept)
            /\ checker_result' = Some(grade_verdict(Len(docs), Len(kept)))
            /\ graded_pass' = {docs[i] : i \in {j \in DOMAIN docs : IsPass(res[j])}}
    /\ node' = "decide_to_generate_or_assess"
    /\ store_answers' = None
    /\ per_query_docs' = None
    /\ rag_fusion_mmr_results' = None
    /\ prev' = node
    /\ used_question' = Some(question)
    /\ UNCHANGED <<question, original_question, generation,
                   hallucination_checker_attempts, answer_verifier_attempts,
                   parsed_router_output, route,
                   hallucination_checker_result, answer_verifier_result,
                   checks, generator_runs, turn_question, grader_tasks,
                   raised,
                   concurrent_turns, node_runs, profile,
                   chat_history_context>>

\* the conditional edge behind RelevanceGrader; the grader's locals end here
DecideToGenerateOrAssess ==
    /\ node = "decide_to_generate_or_assess"
    /\ node' = grader_edge(decide_to_generate_or_assess(
                    checker_result[1], original_question, question))
    /\ prev' = node
    /\ used_question' = Some(original_or_question(original_question, question))
    /\ grade_input' = None
    /\ results' = None
    /\ UNCHANGED <<question, original_question, documents, generation,
                   checker_result, hallucination_checker_attempts,
                   answer_verifier_attempts, parsed_router_output, route,
                   hallucination_checker_result, answer_verifier_result,
                   checks, generator_runs, turn_question, graded_pass,
                   retriever_locals, grader_tasks, raised,
                   concurrent_turns, node_runs, profile,
                   chat_history_context>>

\* node AnswerGenerator; the second conjunct only bounds generator_runs
AnswerGenerator ==
    /\ node = "AnswerGenerator"
    /\ generator_runs < MaxGeneratorRuns
    /\ \E lookup \in ProfileLookups :
        LET context == answer_generator_context(lookup)
        IN  /\ profile' = Some(lookup)
            /\ chat_history_context' = context
            /\ IF context = None
               THEN /\ raised' = Some([in |-> node, call |-> 0])
                    /\ node' = "EXCEPTION"
                    /\ UNCHANGED <<generation, generator_runs>>
               ELSE /\ generation' = Some(Text("AnswerGenerator", generator_runs + 1))
                    /\ generator_runs' = generator_runs + 1
                    /\ node' = "check_generation_vs_documents_and_question"
                    /\ UNCHANGED raised
    /\ used_question' = Some(answer_generator_question(original_question, question))
    /\ prev' = node
    /\ UNCHANGED <<question, original_question, documents, checker_result,
                   hallucination_checker_attempts, answer_verifier_attempts,
                   parsed_router_output, route, grade_input, results,
                   hallucination_checker_result, answer_verifier_result,
                   checks, turn_question, graded_pass,
                   retriever_locals, grader_tasks, concurrent_turns, node_runs>>

\* the conditional edge behind AnswerGenerator; its locals end with the node
\* it leads to
CheckGeneration ==
    /\ node = "check_generation_vs_documents_and_question"
    /\ \E hres \in BinaryScores, ares \in BinaryScores :
        LET r == check_generation_vs_documents_and_question(
                     hres, ares, hallucination_checker_attempts,
                     answer_verifier_attempts)
            calls == verifier_calls(hres)
        IN  /\ hallucination_checker_result' = Some(hres)
            /\ answer_verifier_result' =
                    IF "answer_verifier" \in Range(calls) THEN Some(ares) ELSE None
            /\ checks' = Append(checks, [grounded |-> IsPass(hres),
                                         verdict |-> r, calls |-> calls])
            /\ node' = generator_edge(r)
    /\ prev' = node
    /\ profile' = None
    /\ chat_history_context' = None
    /\ used_question' = Some(verifier_question(original_question, question))
    /\ UNCHANGED <<question, original_question, documents, generation,
                   checker_result, hallucination_checker_attempts,
                   answer_verifier_attempts, parsed_router_output, route,
                   grade_input, results, generator_runs, turn_question, graded_pass,
                   retriever_locals, grader_tasks, raised,
                   concurrent_turns, node_runs>>

\* node HallucinationCheckerFailed, then the edge to AnswerGenerator
HallucinationCheckerFailed ==
    /\ node = "HallucinationCheckerFailed"
    /\ hallucination_checker_attempts' =
            Some(hallucination_checker_tracker(hallucination_checker_attempts))
    /\ node' = edge(node)
    /\ prev' = node
    /\ used_question' = None
    /\ hallucination_checker_result' = None
    /\ answer_verifier_result' = None
    /\ UNCHANGED <<question, original_question, documents, generation,
                   checker_result, answer_verifier_attempts,
                   parsed_router_output, route, grade_input, results,
                   checks, generator_runs, turn_question, graded_pass,
                   retriever_locals, grader_tasks, raised,
                   concurrent_turns, node_runs, profile,
                   chat_history_context>>

\* node AnswerVerifierFailed, then the edge to QueryRewriter
AnswerVerifierFailed ==
    /\ node = "AnswerVerifierFailed"
    /\ answer_verifier_attempts' =
            Some(answer_verifier_tracker(answer_verifier_attempts))
    /\ node' = edge(node)
    /\ prev' = node
    /\ used_question' = None
    /\ hallucination_checker_result' = None
    /\ answer_verifier_result' = None
    /\ UNCHANGED <<question, original_question, documents, generation,
                   checker_result, hallucination_checker_attempts,
                   parsed_router_output, route, grade_input, results,
                   checks, generator_runs, turn_question, graded_pass,
                   retriever_locals, grader_tasks, raised,
                   concurrent_turns, node_runs, profile,
                   chat_history_context>>

\* node QueryRewriter, then the edge to DocumentRetriever
QueryRewriter ==
    /\ node = "QueryRewriter"
    /\ \E rq \in RewrittenQuestions :
        LET update == query_rewriter(original_question, question, rq)
        IN  /\ question' = update.question
            /\ original_question' = Some(update.original_question)
            /\ used_question' = Some(update.original_question)
    /\ node' = edge(node)
    /\ prev' = node
    /\ rewriter_runs' = rewriter_runs + 1
    /\ UNCHANGED retriever_runs
    /\ UNCHANGED <<documents, generation, checker_result,
                   hallucination_checker_attempts, answer_verifier_attempts,
                   parsed_router_output, route, grade_input, results,
                   hallucination_checker_result, answer_verifier_result,
                   checks, generator_runs, turn_question, graded_pass,
                   retriever_locals, grader_tasks, raised,
                   concurrent_turns, profile,
                   chat_history_context>>

\* node WebSearcher, then the edge to AnswerGenerator
WebSearcher ==
    /\ node = "WebSearcher"
    /\ \E web_results \in WebResults :
        documents' = Some(web_search(documents,
                                     formatted_web_results(web_results)))
    /\ node' = edge(node)
    /\ prev' = node
    /\ used_question' = Some(question)
    /\ UNCHANGED <<question, original_question, generation, checker_result,
                   hallucination_checker_attempts, answer_verifier_attempts,
                   parsed_router_output, route, grade_input, results,
                   hallucination_checker_result, answer_verifier_result,
                   checks, generator_runs, turn_question, graded_pass,
                   retriever_locals, grader_tasks, raised,
                   concurrent_turns, node_runs, profile,
                   chat_history_context>>

\* node ChitterChatter, then the edge to END
ChitterChatter ==
    /\ node = "ChitterChatter"
    /\ generation' = Some(Text("ChitterChatter", 1))
    /\ node' = edge(node)
    /\ prev' = node
    /\ used_question' = Some(chitter_chatter_question(original_question, question))
    /\ hallucination_checker_result' = None
    /\ answer_verifier_result' = None
    /\ UNCHANGED <<question, original_question, documents, checker_result,
                   hallucination_checker_attempts, answer_verifier_attempts,
                   parsed_router_output, route, grade_input, results,
                   checks, generator_runs, turn_question, graded_pass,
                   retriever_locals, grader_tasks, raised,
                   concurrent_turns, node_runs, profile,
                   chat_history_context>>

Next ==
    \/ RouteQuestion
    \/ DocumentRetriever
    \/ RelevanceGrader
    \/ DecideToGenerateOrAssess
    \/ AnswerGenerator
    \/ CheckGeneration
    \/ HallucinationCheckerFailed
    \/ AnswerVerifierFailed
    \/ QueryRewriter
    \/ WebSearcher
    \/ ChitterChatter

Spec == Init /\ [][Next]_vars

\* The relevance grader and its conditional edge on their own: the turn has
\* been routed to the knowledge base and the retriever has returned any
\* list of up to max documents.
GraderEntry(max) ==
    /\ turn_question \in UserQuestions
    /\ question = turn_question
    /\ node = "RelevanceGrader"
    /\ prev = "DocumentRetriever"
    /\ original_question = None
    /\ \E n \in 0..max : documents = Some([i \in 1..n |-> KBDoc(i)])
    /\ generation = None
    /\ checker_result = None
    /\ hallucination_checker_attempts = None
    /\ answer_verifier_attempts = None
    /\ parsed_router_output = Some("Vectorstore")
    /\ route = Some("Vectorstore")
    /\ grade_input = None
    /\ results = None
    /\ hallucination_checker_result = None
    /\ answer_verifier_result = None
    /\ checks = <<>>
    /\ generator_runs = 0
    /\ graded_pass = {}
    /\ store_answers = None
    /\ per_query_docs = None
    /\ rag_fusion_mmr_results = None
    /\ tasks = None
    /\ completed = None
    /\ raised = None
    /\ turns = None
    /\ running = None
    /\ alone = None
    /\ profile = None
    /\ chat_history_context = None
    /\ used_question = None
    /\ rewriter_runs = 0
    /\ retriever_runs = 0

GradeInit == GraderEntry(MaxGraded)

GradeNext ==
    \/ RelevanceGrader
    \/ DecideToGenerateOrAssess

GradeSpec == GradeInit /\ [][GradeNext]_vars

\* node DocumentRetriever with its loop over the queries and the fusion of
\* what the store returned, then the edge to RelevanceGrader
document_retriever ==
    /\ node = "DocumentRetriever"
    /\ store_answers # None
    /\ LET per == per_query(store_answers[1])
           fused == reciprocal_rank_fusion(per)
       IN  /\ per_query_docs' = Some(per)
           /\ rag_fusion_mmr_results' = Some(fused)
           /\ documents' = Some(formatted_doc_results(fused))
    /\ graded_pass' = {}
    /\ node' = edge(node)
    /\ prev' = node
    /\ retriever_runs' = retriever_runs + 1
    /\ UNCHANGED rewriter_runs
    /\ used_question' = Some(question)
    /\ UNCHANGED <<question, original_question, generation, checker_result,
                   hallucination_checker_attempts, answer_verifier_attempts,
                   parsed_router_output, route, grade_input, results,
                   hallucination_checker_result, answer_verifier_result,
                   checks, generator_runs, turn_question, store_answers,
                   grader_tasks, raised,
                   concurrent_turns, profile, chat_history_context>>

\* The turn has been routed to the knowledge base, the query model has
\* returned its lines (split on newlines: at least one query) and answers
\* says what retriever.invoke does for each of them.
RetrieverEntry(questions, answers) ==
    /\ turn_question \in questions
    /\ question = turn_question
    /\ node = "DocumentRetriever"
    /\ prev = "route_question"
    /\ original_question = None
    /\ documents = None
    /\ generation = None
    /\ checker_result = None
    /\ hallucination_checker_attempts = None
    /\ answer_verifier_attempts = None
    /\ parsed_router_output = Some("Vectorstore")
    /\ route = Some("Vectorstore")
    /\ grade_input = None
    /\ results = None
    /\ hallucination_checker_result = None
    /\ answer_verifier_result = None
    /\ checks = <<>>
    /\ generator_runs = 0
    /\ graded_pass = {}
    /\ store_answers \in {Some(a) : a \in answers}
    /\ per_query_docs = None
    /\ rag_fusion_mmr_results = None
    /\ tasks = None
    /\ completed = None
    /\ raised = None
    /\ turns = None
    /\ running = None
    /\ alone = None
    /\ profile = None
    /\ chat_history_context = None
    /\ used_question = None
    /\ rewriter_runs = 0
    /\ retriever_runs = 0

\* The fusion on its own: every query returns a list.
FusionInit ==
    RetrieverEntry({WhoIsTheTA},
        UNION {[1..n -> {Returned(l) : l \in ResultLists}]
                    : n \in 1..MaxFusedLists})

FusionNext == document_retriever

FusionSpec == FusionInit /\ [][FusionNext]_vars

\* The retriever with queries that fail, the grader and its edge.
RetrieveInit ==
    RetrieverEntry(UserQuestions,
        UNION {[1..n -> {Raised} \cup {Returned(l) : l \in ResultLists}]
                    : n \in 1..MaxQueries})

RetrieveNext ==
    \/ document_retriever
    \/ RelevanceGrader
    \/ DecideToGenerateOrAssess

RetrieveSpec == RetrieveInit /\ [][RetrieveNext]_vars

\* The retriever on a store wide enough for the fused list to exceed
\* what it keeps: the query model returned two queries.
TruncateInit ==
    RetrieverEntry({WhoIsTheTA},
        {<<Returned(l), Returned(m)>> : l \in WideResultLists,
                                        m \in WideResultLists})

TruncateNext == document_retriever

TruncateSpec == TruncateInit /\ [][TruncateNext]_vars

----------------------------------------------------------------------------
(* The grader of the legacy workflow (src/agentic_workflow.py) *)

\* 0.3, the share of filtered-out documents from which the legacy grading
\* fails
LegacyFailThresholdNum == 3
LegacyFailThresholdDen == 10

\* legacy grade_documents_parallel: checker_result from the two counts
legacy_grade_verdict(total_docs, relevant_docs) ==
    IF total_docs > 0
    THEN IF LegacyFailThresholdDen * (total_docs - relevant_docs)
              >= LegacyFailThresholdNum * total_docs
         THEN "fail" ELSE "pass"
    ELSE "fail"

\* legacy decide_to_generate: the value it returns
decide_to_generate(verdict) ==
    IF verdict = "fail" THEN "Websearch" ELSE "generate"

\* legacy add_conditional_edges("RelevanceGrader", ...)
legacy_grader_edge(r) ==
    CASE r = "Websearch" -> "WebSearcher"
      [] r = "generate" -> "AnswerGenerator"

\* legacy node RelevanceGrader
LegacyRelevanceGrader ==
    /\ node = "RelevanceGrader"
    /\ \E res \in [DOMAIN documents[1] -> BinaryScores] :
        LET docs == documents[1]
            kept == filtered_docs(docs, res)
        IN  /\ grade_input' = Some(docs)
            /\ results' = Some(res)
            /\ documents' = Some(kept)
            /\ checker_result' =
                    Some(legacy_grade_verdict(Len(docs), Len(kept)))
            /\ graded_pass' = {docs[i] : i \in {j \in DOMAIN docs : IsPass(res[j])}}
    /\ node' = "decide_to_generate"
    /\ prev' = node
    /\ used_question' = Some(question)
    /\ UNCHANGED <<question, original_question, generation,
                   hallucination_checker_attempts, answer_verifier_attempts,
                   parsed_router_output, route,
                   hallucination_checker_result, answer_verifier_result,
                   checks, generator_runs, turn_question, retriever_locals,
                   grader_tasks, raised, concurrent_turns, node_runs, profile,
                   chat_history_context>>

\* the legacy conditional edge behind RelevanceGrader
LegacyDecideToGenerate ==
    /\ node = "decide_to_generate"
    /\ node' = legacy_grader_edge(decide_to_generate(checker_result[1]))
    /\ prev' = node
    /\ used_question' = None
    /\ UNCHANGED <<question, original_question, documents, generation,
                   checker_result, hallucination_checker_attempts,
                   answer_verifier_attempts, parsed_router_output, route,
                   grade_input, results,
                   hallucination_checker_result, answer_verifier_result,
                   checks, generator_runs, turn_question, graded_pass,
                   retriever_locals, grader_tasks, raised, concurrent_turns, node_runs,
                   profile, chat_history_context>>

LegacyGradeInit == GraderEntry(MaxGraded)

LegacyGradeNext ==
    \/ LegacyRelevanceGrader
    \/ LegacyDecideToGenerate

LegacyGradeSpec == LegacyGradeInit /\ [][LegacyGradeNext]_vars

----------------------------------------------------------------------------
(* The grader as concurrent tasks *)

\* grade_documents_parallel up to the await: one grading task per document
GradeStart ==
    /\ node = "RelevanceGrader"
    /\ tasks' = Some([i \in DOMAIN documents[1] |-> None])
    /\ completed' = <<>>
    /\ node' = "asyncio.gather"
    /\ UNCHANGED <<prev, question, original_question, documents, generation,
                   checker_result, hallucination_checker_attempts,
                   answer_verifier_attempts, parsed_router_output, route,
                   grade_input, results, hallucination_checker_result,
                   answer_verifier_result, checks, generator_runs,
                   turn_question, graded_pass, retriever_locals, raised,
                   concurrent_turns, node_runs, prompt_inputs>>

\* grade_document: the model call of one task returns, whenever it does
GradeDocument ==
    /\ node = "asyncio.gather"
    /\ \E i \in DOMAIN tasks[1], score \in BinaryScores :
        /\ tasks[1][i] = None
        /\ tasks' = Some([tasks[1] EXCEPT ![i] = Some(score)])
        /\ completed' = Append(completed, i)
    /\ UNCHANGED <<node, prev, question, original_question, documents,
                   generation, checker_result, hallucination_checker_attempts,
                   answer_verifier_attempts, parsed_router_output, route,
                   grade_input, results, hallucination_checker_result,
                   answer_verifier_result, checks, generator_runs,
                   turn_question, graded_pass, retriever_locals, raised,
                   concurrent_turns, node_runs, prompt_inputs>>

\* grade_documents_parallel from the return of gather, which waits for
\* every task, to the end of the node
GradeJoin ==
    /\ node = "asyncio.gather"
    /\ \A i \in DOMAIN tasks[1] : tasks[1][i] # None
    /\ LET docs == documents[1]
           res == gather([i \in DOMAIN tasks[1] |-> tasks[1][i][1]], completed)
           kept == filtered_docs(docs, res)
       IN  /\ grade_input' = Some(docs)
           /\ results' = Some(res)
           /\ documents' = Some(kept)
           /\ checker_result' = Some(grade_verdict(Len(docs), Len(kept)))
           /\ graded_pass' = {docs[i] : i \in {j \in DOMAIN docs : IsPass(res[j])}}
    /\ node' = "decide_to_generate_or_assess"
    /\ prev' = "RelevanceGrader"
    /\ store_answers' = None
    /\ per_query_docs' = None
    /\ rag_fusion_mmr_results' = None
    /\ UNCHANGED <<question, original_question, generation,
                   hallucination_checker_attempts, answer_verifier_attempts,
                   parsed_router_output, route,
                   hallucination_checker_result, answer_verifier_result,
                   checks, generator_runs, turn_question, grader_tasks,
                   raised,
                   concurrent_turns, node_runs, prompt_inputs>>

\* The relevance grader with its grading tasks completing in any order.
ConcurrentGradeInit == GraderEntry(MaxConcurrent)

ConcurrentGradeNext ==
    \/ GradeStart
    \/ GradeDocument
    \/ GradeJoin

ConcurrentGradeSpec == ConcurrentGradeInit /\ [][ConcurrentGradeNext]_vars

\* the nodes and edge functions that call a language model, the query
\* model or the web search
CallingNodes ==
    { "route_question", "DocumentRetriever", "WebSearcher", "AnswerGenerator",
      "check_generation_vs_documents_and_question", "QueryRewriter",
      "ChitterChatter" }

\* A model call or the web search raises (an error, a timeout) in the node
\* or edge function that is running. No node catches it and the graph
\* has no retry policy, so ainvoke raises it to the chat turn handler,
\* whose except branch shows an error message; the update of the node
\* that was running is lost.
ModelCallRaises ==
    /\ node \in CallingNodes
    /\ raised' = Some([in |-> node, call |-> 0])
    /\ node' = "EXCEPTION"
    /\ prev' = node
    /\ UNCHANGED <<question, original_question, documents, generation,
                   checker_result, hallucination_checker_attempts,
                   answer_verifier_attempts, parsed_router_output, route,
                   grade_input, results, hallucination_checker_result,
                   answer_verifier_result, checks, generator_runs,
                   turn_question, graded_pass, retriever_locals, grader_tasks,
                   concurrent_turns, node_runs, prompt_inputs>>

\* The grading call for the document at place i raises: gather, called
\* without return_exceptions, raises it out of grade_documents_parallel.
GradingCallRaises ==
    /\ node = "RelevanceGrader"
    /\ \E i \in DOMAIN documents[1] :
        raised' = Some([in |-> node, call |-> i])
    /\ node' = "EXCEPTION"
    /\ prev' = node
    /\ UNCHANGED <<question, original_question, documents, generation,
                   checker_result, hallucination_checker_attempts,
                   answer_verifier_attempts, parsed_router_output, route,
                   grade_input, results, hallucination_checker_result,
                   answer_verifier_result, checks, generator_runs,
                   turn_question, graded_pass, retriever_locals, grader_tasks,
                   concurrent_turns, node_runs, prompt_inputs>>

\* The turn with calls that may raise.
FailNext ==
    \/ Next
    \/ ModelCallRaises
    \/ GradingCallRaises

FailSpec == Init /\ [][FailNext]_vars

----------------------------------------------------------------------------
(* Two turns at the same time *)

\* the chat sessions with a turn in flight
Turns == {1, 2}

\* inputs = {"question": prompt, "student_id": student_id}, one per turn
TurnInputs ==
    << [question |-> WhoIsTheTA, student_id |-> "s1"],
       [question |-> <<"W","h","y","?">>, student_id |-> "s2"] >>

\* what the vector store returns to a turn
TurnRetrievals == { <<>>, <<KBDoc(1)>> }

\* binary_score values a grader or verifier returns to a turn
TurnScores == { <<"p","a","s","s">>, <<"f","a","i","l">> }

\* the GraphState ainvoke builds from the inputs of a turn
GraphState(inputs) ==
    [node |-> "route_question",
     question |-> inputs.question,
     student_id |-> inputs.student_id,
     original_question |-> None,
     documents |-> None,
     generation |-> None,
     checker_result |-> None,
     hallucination_checker_attempts |-> None,
     answer_verifier_attempts |-> None]

\* what the models, the vector store and the web search may answer to the
\* node a turn is at
Outcomes(state) ==
    CASE state.node = "route_question" ->
            {[label |-> l] : l \in RouterLabels}
      [] state.node = "DocumentRetriever" ->
            {[docs |-> d] : d \in TurnRetrievals}
      [] state.node = "RelevanceGrader" ->
            {[res |-> r] : r \in [DOMAIN state.documents[1] -> TurnScores]}
      [] state.node = "check_generation_vs_documents_and_question" ->
            {[hres |-> h, ares |-> a] : h \in TurnScores, a \in TurnScores}
      [] state.node = "QueryRewriter" ->
            {[rewritten_question |-> rq] : rq \in RewrittenQuestions}
      [] state.node = "WebSearcher" ->
            {[n |-> n] : n \in 1..MaxWebResults}
      [] OTHER -> {[n |-> 0]}

\* the node or edge function a turn is at, applied to the state it is
\* handed: the state with the update it returns
node_update(state, o) ==
    CASE state.node = "route_question" ->
            [state EXCEPT !.node = entry_point(route_question(o.label))]
      [] state.node = "DocumentRetriever" ->
            [state EXCEPT !.documents = Some(o.docs),
                          !.node = edge(state.node)]
      [] state.node = "RelevanceGrader" ->
            LET docs == state.documents[1]
                kept == filtered_docs(docs, o.res)
            IN  [state EXCEPT
                    !.documents = Some(kept),
                    !.checker_result = Some(grade_verdict(Len(docs), Len(kept))),
                    !.node = "decide_to_generate_or_assess"]
      [] state.node = "decide_to_generate_or_assess" ->
            [state EXCEPT !.node = grader_edge(decide_to_generate_or_assess(
                    state.checker_result[1], state.original_question,
                    state.question))]
      [] state.node = "AnswerGenerator" ->
            [state EXCEPT
                !.generation = Some(Text(state.student_id,
                    Get(state.hallucination_checker_attempts, 0)
                    + Get(state.answer_verifier_attempts, 0) + 1)),
                !.node = "check_generation_vs_documents_and_question"]
      [] state.node = "check_generation_vs_documents_and_question" ->
            [state EXCEPT !.node = generator_edge(
                check_generation_vs_documents_and_question(
                    o.hres, o.ares, state.hallucination_checker_attempts,
                    state.answer_verifier_attempts))]
      [] state.node = "HallucinationCheckerFailed" ->
            [state EXCEPT
                !.hallucination_checker_attempts = Some(
                    hallucination_checker_tracker(
                        state.hallucination_checker_attempts)),
                !.node = edge(state.node)]
      [] state.node = "AnswerVerifierFailed" ->
            [state EXCEPT
                !.answer_verifier_attempts = Some(
                    answer_verifier_tracker(state.answer_verifier_attempts)),
                !.node = edge(state.node)]
      [] state.node = "QueryRewriter" ->
            LET update == query_rewriter(state.original_question,
                                         state.question, o.rewritten_question)
            IN  [state EXCEPT
                    !.question = update.question,
                    !.original_question = Some(update.original_question),
                    !.node = edge(state.node)]
      [] state.node = "WebSearcher" ->
            [state EXCEPT !.documents = Some(web_search(state.documents, o.n)),
                          !.node = edge(state.node)]
      [] state.node = "ChitterChatter" ->
            [state EXCEPT !.generation = Some(Text("ChitterChatter", 1)),
                          !.node = edge(state.node)]
      [] OTHER -> state

\* one GraphState for every turn: each turn's nodes are handed the first
\* turn's state
state_of_first(u) == 1

\* workflow.ainvoke(inputs): the GraphState the nodes of turn u are handed
\* and update is the one built from the inputs of turn u
state_of(u) == u

TwoTurnInit ==
    /\ turns = [u \in Turns |-> GraphState(TurnInputs[u])]
    /\ alone = turns
    /\ profile = None
    /\ chat_history_context = None
    /\ used_question = None
    /\ rewriter_runs = 0
    /\ retriever_runs = 0
    /\ running = None
    /\ turn_question = WhoIsTheTA
    /\ question = turn_question
    /\ node = "END"
    /\ prev = "START"
    /\ original_question = None
    /\ documents = None
    /\ generation = None
    /\ checker_result = None
    /\ hallucination_checker_attempts = None
    /\ answer_verifier_attempts = None
    /\ parsed_router_output = None
    /\ route = None
    /\ grade_input = None
    /\ results = None
    /\ hallucination_checker_result = None
    /\ answer_verifier_result = None
    /\ checks = <<>>
    /\ generator_runs = 0
    /\ graded_pass = {}
    /\ store_answers = None
    /\ per_query_docs = None
    /\ rag_fusion_mmr_results = None
    /\ tasks = None
    /\ completed = None
    /\ raised = None

\* the event loop of turn u runs the node the turn is at
RunTurn ==
    /\ \E u \in Turns :
        /\ turns[state_of(u)].node # "END"
        /\ \E o \in Outcomes(turns[state_of(u)]) :
            /\ turns' = [turns EXCEPT ![state_of(u)] = node_update(@, o)]
            /\ alone' = [alone EXCEPT ![u] = node_update(@, o)]
        /\ running' = Some(u)
    /\ UNCHANGED <<node, prev, question, original_question, documents,
                   generation, checker_result, hallucination_checker_attempts,
                   answer_verifier_attempts, parsed_router_output, route,
                   grade_input, results, hallucination_checker_result,
                   answer_verifier_result, checks, generator_runs,
                   turn_question, graded_pass, retriever_locals, grader_tasks,
                   raised, prompt_inputs, node_runs>>

TwoTurnNext == RunTurn

TwoTurnSpec == TwoTurnInit /\ [][TwoTurnNext]_vars

\* LangGraph runs the next node as long as the turn has not reached END
FairSpec == Spec /\ WF_vars(Next)

----------------------------------------------------------------------------
(* Vocabulary of the properties *)

CheckNode == "check_generation_vs_documents_and_question"
DecideNode == "decide_to_generate_or_assess"

\* the two retry counters as the code reads them
H == Get(hallucination_checker_attempts, 0)
A == Get(answer_verifier_attempts, 0)

\* the last k verifications of the turn all failed grounding
LastNotGrounded(k) ==
    /\ Len(checks) >= k
    /\ \A i \in (Len(checks) - k + 1)..Len(checks) : ~checks[i].grounded

\* Nodes and edge functions, latest first: every edge of the graph leads to
\* an earlier entry except the two retry edges out of the tracker nodes.
NodeOrder ==
    << "END", "ChitterChatter", "HallucinationCheckerFailed",
       "AnswerVerifierFailed", CheckNode, "AnswerGenerator", "WebSearcher",
       DecideNode, "RelevanceGrader", "DocumentRetriever", "QueryRewriter",
       "route_question" >>

Position(n) == CHOOSE i \in DOMAIN NodeOrder : NodeOrder[i] = n

\* Node executions still possible: the retries left in both budgets weigh
\* more than any walk through the graph between two retries.
Rank == Len(NodeOrder) * ((2 - H) + (2 - A)) + Position(node) - 1

----------------------------------------------------------------------------
(* C1 *)

\* C1: whatever the router, the graders and the verifiers answer, a turn
\* reaches END, given only that the node that is next is eventually run;
\* and it does so after finitely many node executions, because every node
\* execution lowers Rank and Rank never falls below 0. So neither the
\* Generate/RetryGrounding cycle nor the RewriteQuery/RetrieveKB/Grade/
\* Generate cycle repeats forever.
C1_TurnTerminates ==
    /\ <>(node = "END")
    /\ [][Rank' < Rank]_vars
    /\ [](Rank >= 0)

\* a turn that ended after using both retry budgets in full
C1_Witness ==
    /\ node = "END"
    /\ H = 2
    /\ A = 2
    /\ generator_runs = 5

----------------------------------------------------------------------------
(* C2 *)

\* C2 as stated: after two grounding failures in a row, counted from
\* grounding_attempts = 0, the verification sends the turn to Fallback.
C2_FallbackAfterSecondFailure ==
    (prev = CheckNode /\ LastNotGrounded(2) /\ H = 1)
        => node = "ChitterChatter"

\* C2 amended: counted from grounding_attempts = 0, the second grounding
\* failure in a row is retried, the third one sends the turn to Fallback,
\* and from then on the AnswerGenerator has run exactly once per
\* verification: it is not run a fourth time.
C2_FallbackAfterThirdFailure ==
    /\ (prev = CheckNode /\ LastNotGrounded(2) /\ H = 1)
            => node = "HallucinationCheckerFailed"
    /\ (LastNotGrounded(3) /\ H = 2)
            => /\ node \in {"ChitterChatter", "END"}
               /\ generator_runs = Len(checks)
               /\ prev = CheckNode => node = "ChitterChatter"

\* the third grounding failure in a row has just been decided
C2_Witness ==
    /\ prev = CheckNode
    /\ LastNotGrounded(3)
    /\ H = 2
    /\ node = "ChitterChatter"
    /\ generator_runs = 3

----------------------------------------------------------------------------
(* C3 *)

\* C3: a failed grounding check with grounding_attempts <= 1 leads to the
\* tracker node, which adds exactly 1 and hands over to AnswerGenerator
\* with no other node in between; with grounding_attempts > 1 it leads to
\* Fallback, and neither the check nor Fallback changes the counter.
C3_GroundingFailure ==
    /\ []((prev = CheckNode /\ ~IsPass(hallucination_checker_result[1]))
            => IF H <= 1 THEN node = "HallucinationCheckerFailed"
                         ELSE node = "ChitterChatter")
    /\ [][node = "HallucinationCheckerFailed"
            => /\ hallucination_checker_attempts' = Some(H + 1)
               /\ node' = "AnswerGenerator"]_vars
    /\ [][(node \in {CheckNode, "ChitterChatter"})
            => hallucination_checker_attempts' = hallucination_checker_attempts]_vars

\* a grounding failure with the budget used up has gone to Fallback
C3_Witness ==
    /\ prev = CheckNode
    /\ ~IsPass(hallucination_checker_result[1])
    /\ H = 2
    /\ node = "ChitterChatter"

----------------------------------------------------------------------------
(* C4 *)

\* C4: after a passed grounding check, a usefulness pass ends the turn with
\* the generator's answer; a usefulness failure with usefulness_attempts <= 1
\* leads to the tracker node, which adds exactly 1, then QueryRewriter,
\* then DocumentRetriever, whatever the entry route was; a usefulness
\* failure with usefulness_attempts > 1 leads to Fallback.
C4_UsefulnessOutcome ==
    /\ []((prev = CheckNode /\ IsPass(hallucination_checker_result[1]))
            => /\ answer_verifier_result # None
               /\ IF IsPass(answer_verifier_result[1])
                  THEN /\ node = "END"
                       /\ generation[1].by = "AnswerGenerator"
                  ELSE IF A <= 1 THEN node = "AnswerVerifierFailed"
                  ELSE node = "ChitterChatter")
    /\ [][node = "AnswerVerifierFailed"
            => /\ answer_verifier_attempts' = Some(A + 1)
               /\ node' = "QueryRewriter"]_vars
    /\ [][node = "QueryRewriter" => node' = "DocumentRetriever"]_vars

\* a turn routed to web search is on its way to knowledge-base retrieval
\* after the rewrite that followed a usefulness failure
C4_Witness ==
    /\ route = Some("Websearch")
    /\ prev = "QueryRewriter"
    /\ node = "DocumentRetriever"
    /\ A = 1

----------------------------------------------------------------------------
(* C5 *)

\* C5: once set, original_question is the question the turn started with;
\* the first rewrite sets it to the question it rewrites, nothing changes
\* it afterwards, it is set by the rewriter alone, and a rewrite changes
\* no other field than question and original_question.
C5_OriginalQuestionKept ==
    /\ [](original_question # None => original_question = Some(turn_question))
    /\ [][(node = "QueryRewriter" /\ original_question = None)
            => original_question' = Some(question)]_vars
    /\ [][original_question # None
            => original_question' = original_question]_vars
    /\ [][original_question' # original_question
            => node = "QueryRewriter"]_vars
    /\ [][node = "QueryRewriter"
            => UNCHANGED <<documents, generation, checker_result,
                           hallucination_checker_attempts,
                           answer_verifier_attempts>>]_vars

\* the second rewrite of a turn has run
C5_Witness ==
    /\ prev = "QueryRewriter"
    /\ A = 2
    /\ original_question = Some(turn_question)
    /\ question # turn_question

----------------------------------------------------------------------------
(* C6 *)

\* C6: both retry counters stay within 0..2; no step lowers or resets
\* either; grounding_attempts changes in HallucinationCheckerFailed alone
\* and usefulness_attempts in AnswerVerifierFailed alone, so no step
\* changes both and a rewrite changes neither.
C6_CountersBoundedMonotone ==
    /\ [](H \in 0..2 /\ A \in 0..2)
    /\ [][H' >= H /\ A' >= A]_vars
    /\ [][hallucination_checker_attempts # None
            => hallucination_checker_attempts' # None]_vars
    /\ [][answer_verifier_attempts # None
            => answer_verifier_attempts' # None]_vars
    /\ [][H' # H => (node = "HallucinationCheckerFailed" /\ A' = A)]_vars
    /\ [][A' # A => (node = "AnswerVerifierFailed" /\ H' = H)]_vars

\* both counters at their ceiling
C6_Witness ==
    /\ H = 2
    /\ A = 2

----------------------------------------------------------------------------
(* C7 *)

\* C7: the router returns one of the three routes for every Datasource the
\* classifier answers, the matching route for the two retrieval labels and
\* Chitter-Chatter for every other label, and the entry point starts the
\* node of that route.
C7_RouterFailsSafe ==
    /\ (prev = "START") <=> (route = None)
    /\ route # None =>
        /\ route[1] \in {"Websearch", "Vectorstore", "Chitter-Chatter"}
        /\ parsed_router_output[1] \in {"Websearch", "Vectorstore"}
                => route[1] = parsed_router_output[1]
        /\ parsed_router_output[1] \notin {"Websearch", "Vectorstore"}
                => route[1] = "Chitter-Chatter"
    /\ prev = "route_question" =>
        node = CASE route[1] = "Websearch" -> "WebSearcher"
                 [] route[1] = "Vectorstore" -> "DocumentRetriever"
                 [] route[1] = "Chitter-Chatter" -> "ChitterChatter"

\* a label outside the known ones has been routed to the fallback agent
C7_Witness ==
    /\ prev = "route_question"
    /\ parsed_router_output = Some("Database")
    /\ route = Some("Chitter-Chatter")
    /\ node = "ChitterChatter"

----------------------------------------------------------------------------
(* C8 *)

\* positions of the graded list whose binary_score is not pass
NotPassed == {i \in DOMAIN results[1] : ~IsPass(results[1][i])}

\* C8: the list the grader returns holds documents of its input only, a
\* document of the input is in it exactly if it was graded pass, none
\* twice and in input order; for an empty input the list is empty and the
\* verdict is fail.
C8_FilterNeverAdds ==
    prev = "RelevanceGrader" =>
        LET input == grade_input[1]
            output == documents[1]
        IN  /\ Range(output) \subseteq Range(input)
            /\ \A i \in DOMAIN input :
                    (input[i] \in Range(output)) <=> (i \notin NotPassed)
            /\ Len(output) = Len(input) - Cardinality(NotPassed)
            /\ \A i, j \in DOMAIN output :
                    i < j => output[i].id < output[j].id
            /\ input = <<>> =>
                    (output = <<>> /\ checker_result = Some("fail"))

\* the grader dropped some documents of its input and kept others
C8_Witness ==
    /\ prev = "RelevanceGrader"
    /\ NotPassed # {}
    /\ documents[1] # <<>>
    /\ Len(grade_input[1]) = MaxGraded

----------------------------------------------------------------------------
(* C9 *)

\* C9: for n > 0 graded documents of which f are not pass, the verdict is
\* fail exactly if 10 * f >= 3 * n, and pass otherwise.
C9_VerdictThreshold ==
    (prev = "RelevanceGrader" /\ grade_input[1] # <<>>) =>
        LET n == Len(grade_input[1])
            f == Cardinality(NotPassed)
        IN  /\ checker_result[1] \in {"pass", "fail"}
            /\ (checker_result[1] = "fail") <=> (10 * f >= 3 * n)

\* a batch that passes although one of its documents was graded not pass
C9_Witness ==
    /\ prev = "RelevanceGrader"
    /\ Cardinality(NotPassed) = 1
    /\ checker_result = Some("pass")

----------------------------------------------------------------------------
(* C10 *)

\* the question the user asked, as far as the state holds it
AskedQuestion ==
    IF original_question # None THEN original_question[1] ELSE question

\* q, lower-cased and stripped, begins with who, what, when or where
BeginsWithInterrogative(q) ==
    LET s == strip(lower(q))
    IN  \E w \in { <<"w","h","o">>, <<"w","h","a","t">>,
                   <<"w","h","e","n">>, <<"w","h","e","r","e">> } :
            /\ Len(s) >= Len(w)
            /\ \A i \in DOMAIN w : s[i] = w[i]

\* C10: the edge behind Grade leads to AnswerGenerator on a pass verdict;
\* on a fail verdict to ChitterChatter if the original question begins with
\* who, what, when or where, and to WebSearcher otherwise. "Who is the TA
\* for lab tutoring?" with every document graded fail goes to ChitterChatter.
C10_EdgeBehindGrade ==
    prev = DecideNode =>
        /\ node = IF checker_result = Some("pass") THEN "AnswerGenerator"
                  ELSE IF BeginsWithInterrogative(AskedQuestion)
                       THEN "ChitterChatter"
                  ELSE "WebSearcher"
        /\ (turn_question = WhoIsTheTA /\ documents = Some(<<>>))
                => node = "ChitterChatter"

\* after a rewrite into a question of another kind, a failed grading of the
\* TA question has gone to the fallback agent
C10_Witness ==
    /\ prev = DecideNode
    /\ node = "ChitterChatter"
    /\ turn_question = WhoIsTheTA
    /\ original_question = Some(WhoIsTheTA)
    /\ ~BeginsWithInterrogative(question)
    /\ documents = Some(<<>>)

----------------------------------------------------------------------------
(* C11 *)

\* the knowledge-base documents of the list the state holds
KBDocuments == {d \in Range(Get(documents, <<>>)) : d.source = "kb"}

\* C11: whenever the AnswerGenerator is about to run, on the first pass, on
\* a grounding retry, after a rewrite or behind the web search that follows
\* a failed grading, every knowledge-base document in documents was graded
\* pass since the most recent retrieval; and what the retriever returns
\* goes to the grader, never anywhere else.
C11_GeneratorSeesGradedOnly ==
    /\ node = "AnswerGenerator" =>
            (documents # None /\ KBDocuments \subseteq graded_pass)
    /\ prev = "DocumentRetriever" => node = "RelevanceGrader"

\* after a rewrite, a grading that dropped the first document and kept the
\* second failed, and the web search behind it hands over to the generator
C11_Witness ==
    /\ node = "AnswerGenerator"
    /\ prev = "WebSearcher"
    /\ A = 1
    /\ KBDocuments = {KBDoc(2)}
    /\ Len(documents[1]) > 1

----------------------------------------------------------------------------
(* C12 *)

\* The edges the specification lists, by node name. Grade is RelevanceGrader
\* with the edge function behind it, Generate is AnswerGenerator with the
\* verification behind it.
ListedEdges ==
    { <<"route_question", "DocumentRetriever">>,
      <<"route_question", "WebSearcher">>,
      <<"route_question", "ChitterChatter">>,
      <<"DocumentRetriever", "RelevanceGrader">>,
      <<"RelevanceGrader", DecideNode>>,
      <<DecideNode, "AnswerGenerator">>,
      <<DecideNode, "WebSearcher">>,
      <<DecideNode, "ChitterChatter">>,
      <<"WebSearcher", "AnswerGenerator">>,
      <<"AnswerGenerator", CheckNode>>,
      <<CheckNode, "END">>,
      <<CheckNode, "HallucinationCheckerFailed">>,
      <<CheckNode, "AnswerVerifierFailed">>,
      <<CheckNode, "ChitterChatter">>,
      <<"HallucinationCheckerFailed", "AnswerGenerator">>,
      <<"AnswerVerifierFailed", "QueryRewriter">>,
      <<"QueryRewriter", "DocumentRetriever">>,
      <<"ChitterChatter", "END">> }

\* C12: every step of a turn follows a listed edge; routing is the first
\* step and no step leads back to it; the retriever is followed by the
\* grader and the web search by the generator; the fallback agent is
\* followed by the end of the turn, and nothing runs after the end.
C12_OnlyListedEdges ==
    /\ [][(<<node, node'>> \in ListedEdges)]_vars
    /\ []((prev = "START") <=> (node = "route_question"))
    /\ [][node' # "route_question"]_vars
    /\ [][node = "DocumentRetriever" => node' = "RelevanceGrader"]_vars
    /\ [][node = "WebSearcher" => node' = "AnswerGenerator"]_vars
    /\ [][node = "ChitterChatter" => node' = "END"]_vars
    /\ [][node # "END"]_vars

\* a turn routed to web search has ended through the fallback agent after
\* two rewrites
C12_Witness ==
    /\ node = "END"
    /\ prev = "ChitterChatter"
    /\ route = Some("Websearch")
    /\ A = 2

----------------------------------------------------------------------------
(* C13 *)

\* C13: every verification of the turn called the grounding verifier
\* first, and called the usefulness verifier, second, exactly if grounding
\* returned pass; behind a grounding failure there is no usefulness result
\* and the next node follows from grounding_attempts alone.
C13_GroundingBeforeUsefulness ==
    /\ \A i \in DOMAIN checks :
            /\ checks[i].calls[1] = "hallucination_checker"
            /\ checks[i].grounded
                    => checks[i].calls = <<"hallucination_checker", "answer_verifier">>
            /\ ~checks[i].grounded
                    => checks[i].calls = <<"hallucination_checker">>
    /\ (prev = CheckNode /\ ~checks[Len(checks)].grounded)
            => /\ answer_verifier_result = None
               /\ node = IF H <= 1 THEN "HallucinationCheckerFailed"
                         ELSE "ChitterChatter"

\* a grounding failure decided while the usefulness budget was used up:
\* the turn retries the generation all the same
C13_Witness ==
    /\ prev = CheckNode
    /\ ~checks[Len(checks)].grounded
    /\ A = 2
    /\ H = 0
    /\ node = "HallucinationCheckerFailed"
    /\ \E i \in DOMAIN checks : checks[i].grounded

----------------------------------------------------------------------------
(* C14 *)

\* the lists the fusion was handed and the documents it returned
FusedLists == per_query_docs[1]
FusedDocs ==
    [i \in DOMAIN rag_fusion_mmr_results[1] |-> rag_fusion_mmr_results[1][i].doc]

\* the places <<list, rank>> at which d occurs in the lists
Occurrences(d) ==
    {o \in (DOMAIN FusedLists) \X (1..MmrK) :
        o[2] \in DOMAIN FusedLists[o[1]] /\ FusedLists[o[1]][o[2]] = d}

RECURSIVE Product(_)
Product(S) ==
    IF S = {} THEN 1
    ELSE LET x == CHOOSE y \in S : TRUE IN x * Product(S \ {x})

\* 1 / (rank + 60) as a multiple of 1 / ((1 + 60) * ... * (MmrK + 60))
ExactTerm(rank) == Product({r + RrfK : r \in (1..MmrK) \ {rank}})

RECURSIVE SumOfTerms(_)
SumOfTerms(O) ==
    IF O = {} THEN 0
    ELSE LET o == CHOOSE x \in O : TRUE
         IN  ExactTerm(o[2]) + SumOfTerms(O \ {o})

\* the sum over all lists of 1 / (rank + 60), in the same multiples
ExactScore(d) == SumOfTerms(Occurrences(d))

\* d was met before e when the lists are read in order
MetBefore(d, e) ==
    \E o \in Occurrences(d) : \A x \in Occurrences(e) :
        o[1] < x[1] \/ (o[1] = x[1] /\ o[2] < x[2])

\* C14: the fusion returns every document of the lists exactly once, by
\* falling sum of 1 / (rank + 60) over all lists, and documents of equal
\* sum in the order in which they were first met; the lists <<A, B, C>>
\* and <<B, C, A>> give B, A, C.
C14_FusionOrder ==
    rag_fusion_mmr_results # None =>
        /\ Range(FusedDocs) = UNION {Range(FusedLists[n]) : n \in DOMAIN FusedLists}
        /\ \A i, j \in DOMAIN FusedDocs :
                i < j =>
                    /\ FusedDocs[i] # FusedDocs[j]
                    /\ \/ ExactScore(FusedDocs[i]) > ExactScore(FusedDocs[j])
                       \/ /\ ExactScore(FusedDocs[i]) = ExactScore(FusedDocs[j])
                          /\ MetBefore(FusedDocs[i], FusedDocs[j])
        /\ FusedLists = << <<KBDoc(1), KBDoc(2), KBDoc(3)>>,
                           <<KBDoc(2), KBDoc(3), KBDoc(1)>> >>
                => FusedDocs = <<KBDoc(2), KBDoc(1), KBDoc(3)>>

----------------------------------------------------------------------------
(* C15 *)

\* the grading tasks have all completed
AllGraded == \A i \in DOMAIN tasks[1] : tasks[1][i] # None

\* positions of the graded list whose task returned pass for its document
GradedPass == {i \in DOMAIN tasks[1] : IsPass(tasks[1][i][1])}

\* C15: with the grade each task returns for its document given, the
\* grader keeps exactly the documents graded pass, in input order, and
\* fails exactly if 10 * f >= 3 * n or n = 0, in whatever order the tasks
\* completed; and the verdict is set only once every task has completed.
C15_GradingOrderIrrelevant ==
    /\ []((prev = "RelevanceGrader" /\ tasks # None) =>
            LET input == grade_input[1]
                output == documents[1]
                n == Len(input)
                f == n - Cardinality(GradedPass)
            IN  /\ AllGraded
                /\ Range(completed) = DOMAIN input
                /\ \A i \in DOMAIN input :
                        (input[i] \in Range(output)) <=> (i \in GradedPass)
                /\ Len(output) = Cardinality(GradedPass)
                /\ \A i, j \in DOMAIN output :
                        i < j => output[i].id < output[j].id
                /\ (checker_result[1] = "fail") <=> (n = 0 \/ 10 * f >= 3 * n)
                /\ (checker_result[1] = "pass") <=> (n > 0 /\ 10 * f < 3 * n))
    /\ [][(tasks # None /\ checker_result' # checker_result) => AllGraded]_vars
    /\ []((tasks # None /\ ~AllGraded) => checker_result = None)

\* three tasks completed last to first, the second document was dropped
C15_Witness ==
    /\ prev = "RelevanceGrader"
    /\ tasks # None
    /\ completed = <<3, 2, 1>>
    /\ documents = Some(<<KBDoc(1), KBDoc(3)>>)
    /\ checker_result = Some("fail")

----------------------------------------------------------------------------
(* C16 *)

\* the queries for which retriever.invoke returned
Answered == {i \in DOMAIN store_answers[1] : ~store_answers[1][i].raised}

\* C16: the retriever hands over to the grader whatever queries raised;
\* the lists of the queries that returned are all fused, in query order,
\* and their documents make up the list it returns; if every query
\* raised that list is empty; and on an empty list the grader sets the
\* verdict fail and hands over to its edge.
C16_RetrievalFailuresSkipped ==
    /\ (prev = "DocumentRetriever" /\ store_answers # None) =>
            /\ node = "RelevanceGrader"
            /\ Len(per_query_docs[1]) = Cardinality(Answered)
            /\ \A i \in Answered :
                    per_query_docs[1][Cardinality({j \in Answered : j <= i})]
                        = store_answers[1][i].docs
            /\ Range(documents[1])
                    = UNION {Range(store_answers[1][i].docs) : i \in Answered}
            /\ Answered = {} => documents = Some(<<>>)
    /\ (prev = "RelevanceGrader" /\ grade_input = Some(<<>>)) =>
            /\ checker_result = Some("fail")
            /\ node = DecideNode

\* the first query raised, the second returned two documents
C16_Witness ==
    /\ prev = "DocumentRetriever"
    /\ store_answers = Some(<<Raised, Returned(<<KBDoc(2), KBDoc(1)>>)>>)
    /\ documents = Some(<<KBDoc(2), KBDoc(1)>>)
    /\ node = "RelevanceGrader"

----------------------------------------------------------------------------
(* C17 *)

\* C17: when the grading call for one document has raised, the turn goes
\* on: the grader has set a verdict and handed over to its edge, and the
\* document whose call raised is not among the documents it kept.
C17_GradingFailureSkipped ==
    (raised # None /\ raised[1].in = "RelevanceGrader") =>
        /\ node # "EXCEPTION"
        /\ checker_result # None
        /\ grade_input[1][raised[1].call] \notin Range(documents[1])

----------------------------------------------------------------------------
(* C18 *)

\* C18: when a model call or the web search has raised in routing,
\* retrieval, generation, verification, rewriting or web search, ainvoke
\* raises nothing: the fallback agent runs next and the turn ends with its
\* generation.
C18_FailedCallEndsInFallback ==
    (raised # None /\ raised[1].in \in CallingNodes \ {"ChitterChatter"}) =>
        /\ node # "EXCEPTION"
        /\ node \in {"ChitterChatter", "END"}
        /\ node = "END" =>
                (generation # None /\ generation[1].by = "ChitterChatter")

----------------------------------------------------------------------------
(* C19 *)

\* the labels that read "pass" when lower-cased, among those a model returns
PassLabels == { <<"p","a","s","s">>, <<"P","A","S","S">> }

\* C19: a grounding binary_score that is not "pass" in any case, be it
\* "fail" or a label nobody expects, leads to the grounding retry while
\* grounding_attempts <= 1 and to Fallback after that; a usefulness
\* binary_score that is not "pass" leads to the rewrite while
\* usefulness_attempts <= 1 and to Fallback after that; and the grader
\* drops every document whose binary_score is not "pass".
C19_NonPassIsFail ==
    /\ prev = CheckNode =>
            IF hallucination_checker_result[1] \notin PassLabels
            THEN node = IF H <= 1 THEN "HallucinationCheckerFailed"
                        ELSE "ChitterChatter"
            ELSE IF answer_verifier_result[1] \notin PassLabels
            THEN node = IF A <= 1 THEN "AnswerVerifierFailed"
                        ELSE "ChitterChatter"
            ELSE node = "END"
    /\ prev = "RelevanceGrader" =>
            \A i \in DOMAIN results[1] :
                results[1][i] \notin PassLabels
                    => grade_input[1][i] \notin Range(documents[1])

\* the grounding verifier answered with an unexpected label while the
\* grounding budget was used up
C19_Witness ==
    /\ prev = CheckNode
    /\ hallucination_checker_result = Some(<<"n","/","a">>)
    /\ H = 2
    /\ node = "ChitterChatter"

----------------------------------------------------------------------------
(* C20 *)

\* the state of turn u carries the input of turn u only
OwnInput(u) ==
    /\ turns[u].student_id = TurnInputs[u].student_id
    /\ turns[u].original_question \in {None, Some(TurnInputs[u].question)}
    /\ turns[u].generation # None =>
            turns[u].generation[1].by
                \in {TurnInputs[u].student_id, "ChitterChatter"}

----------------------------------------------------------------------------
(* C21 *)

\* the profile lookup raised, or returned no text
ProfileFailedOrAbsent ==
    /\ profile # None
    /\ profile[1].raised \/ profile[1].text \in {None, Some("")}

\* C21: when the Answer Generator has run and its profile lookup raised or
\* returned no text, no exception has left the node, the generator has
\* used the placeholder context and produced the generation of this run,
\* and the turn is at the verification of that generation.
C21_ProfileFailureDegrades ==
    (prev = "AnswerGenerator" /\ ProfileFailedOrAbsent) =>
        /\ raised = None
        /\ chat_history_context = Some(NoProfileContext)
        /\ generation = Some(Text("AnswerGenerator", generator_runs))
        /\ generator_runs >= 1
        /\ node = CheckNode

\* the profile lookup raised in the second run of the generator
C21_Witness ==
    /\ prev = "AnswerGenerator"
    /\ profile # None
    /\ profile[1].raised
    /\ generator_runs = 2
    /\ node = CheckNode

----------------------------------------------------------------------------
(* C22 *)

\* the nodes that search or grade with the question
SearchingNodes == {"DocumentRetriever", "RelevanceGrader", "WebSearcher"}

\* C22: the Answer Generator is given original_question when it is set and
\* the current question otherwise. Once the question has been rewritten,
\* the generator and the verification are given the question the user
\* asked, while the retriever, the grader and the web search are given the
\* current, rewritten question.
C22_GeneratorAnswersOriginal ==
    /\ prev = "AnswerGenerator" =>
            used_question = IF original_question # None
                            THEN original_question
                            ELSE Some(question)
    /\ (prev \in {"AnswerGenerator", CheckNode} /\ original_question # None) =>
            used_question = Some(turn_question)
    /\ (prev \in SearchingNodes /\ original_question # None) =>
            /\ used_question = Some(question)
            /\ question \in RewrittenQuestions

\* the generator has run after a rewrite: it was given the user's question,
\* not the rewritten one
C22_Witness ==
    /\ prev = "AnswerGenerator"
    /\ turn_question = WhoIsTheTA
    /\ original_question = Some(WhoIsTheTA)
    /\ question \in RewrittenQuestions
    /\ used_question = Some(WhoIsTheTA)

----------------------------------------------------------------------------
(* C23 *)

\* the smaller of two numbers
Min(a, b) == IF a < b THEN a ELSE b

\* C23: the documents the retriever returns are the first 5 of the fused
\* list, or all of it when it is shorter, in the order of the fused list
\* (none left behind has a greater score than one that is returned), and
\* no returned document has an rrf_score field.
C23_TopFiveWithoutScore ==
    prev = "DocumentRetriever" =>
        LET fused == rag_fusion_mmr_results[1]
            docs == documents[1]
        IN  /\ Len(docs) = Min(Len(fused), 5)
            /\ \A i \in DOMAIN docs :
                /\ docs[i] = fused[i].doc
                /\ "rrf_score" \notin DOMAIN docs[i]
                /\ \A j \in DOMAIN fused :
                        j > Len(docs) =>
                            ~fl_greater(fused[j].rrf_score, fused[i].rrf_score)

\* two queries returned disjoint lists of three documents: six fused
\* documents, five returned
C23_Witness ==
    /\ prev = "DocumentRetriever"
    /\ Len(rag_fusion_mmr_results[1]) = 6
    /\ Len(documents[1]) = 5
    /\ documents[1][5] = rag_fusion_mmr_results[1][5].doc

----------------------------------------------------------------------------
(* C24 *)

\* C24: the step HallucinationCheckerFailed adds one to
\* hallucination_checker_attempts and leaves question, original_question,
\* documents, generation, checker_result and answer_verifier_attempts as
\* they were; the Answer Generator runs next, on the documents of the
\* generation that failed.
C24_RetryGroundingFrame ==
    [][(node = "HallucinationCheckerFailed") =>
            /\ hallucination_checker_attempts' = Some(H + 1)
            /\ question' = question
            /\ original_question' = original_question
            /\ documents' = documents
            /\ generation' = generation
            /\ checker_result' = checker_result
            /\ answer_verifier_attempts' = answer_verifier_attempts
            /\ node' = "AnswerGenerator"]_vars

\* the second grounding retry of a turn that has rewritten its question
\* once: the generator is next, on the documents it had before
C24_Witness ==
    /\ prev = "HallucinationCheckerFailed"
    /\ node = "AnswerGenerator"
    /\ H = 2
    /\ A = 1
    /\ original_question # None
    /\ documents # None
    /\ Len(documents[1]) >= 1

----------------------------------------------------------------------------
(* C25 *)

\* the documents the state holds when WebSearcher starts
HeldDocuments == Get(documents, <<>>)

\* C25: WebSearcher runs behind routing, with no documents in the state,
\* or behind a failed grading, with the documents the grader kept. It
\* leaves the documents it found in place and in order and puts at least
\* one web result behind them; question, original_question and the two
\* counters stay as they were.
C25_WebSearchAppends ==
    [][(node = "WebSearcher") =>
            /\ prev \in {"route_question", DecideNode}
            /\ prev = "route_question" => documents = None
            /\ prev = DecideNode =>
                    /\ documents # None
                    /\ Range(documents[1]) = graded_pass
            /\ documents' # None
            /\ Len(documents'[1]) > Len(HeldDocuments)
            /\ SubSeq(documents'[1], 1, Len(HeldDocuments)) = HeldDocuments
            /\ \A i \in (Len(HeldDocuments) + 1)..Len(documents'[1]) :
                    documents'[1][i].source = "web"
            /\ question' = question
            /\ original_question' = original_question
            /\ hallucination_checker_attempts' = hallucination_checker_attempts
            /\ answer_verifier_attempts' = answer_verifier_attempts]_vars

\* a failed grading kept one of two documents; the web search has put two
\* results behind it
C25_Witness ==
    /\ prev = "WebSearcher"
    /\ documents # None
    /\ Len(documents[1]) = 3
    /\ documents[1][1] \in graded_pass
    /\ documents[1][2] = WebDoc(1)
    /\ documents[1][3] = WebDoc(2)

----------------------------------------------------------------------------
(* C26 *)

\* C26: in the legacy workflow, for n > 0 graded documents of which f are
\* not pass, the verdict is fail exactly if f is half of n or more, and a
\* failed verdict, and no other, leads to the web search.
C26_LegacyFailsFromHalf ==
    /\ (prev = "RelevanceGrader" /\ grade_input[1] # <<>>) =>
            LET n == Len(grade_input[1])
                f == Cardinality(NotPassed)
            IN  (checker_result[1] = "fail") <=> (2 * f >= n)
    /\ (prev = "decide_to_generate" /\ grade_input[1] # <<>>) =>
            LET n == Len(grade_input[1])
                f == Cardinality(NotPassed)
            IN  (node = "WebSearcher") <=> (2 * f >= n)

----------------------------------------------------------------------------
(* C27 *)

\* the turn ended behind a verification both of whose checks passed, with
\* the generation that was verified
EndsVerified ==
    /\ prev = CheckNode
    /\ generation = Some(Text("AnswerGenerator", generator_runs))
    /\ hallucination_checker_result # None
    /\ IsPass(hallucination_checker_result[1])
    /\ answer_verifier_result # None
    /\ IsPass(answer_verifier_result[1])
    /\ checks[Len(checks)].verdict = "useful"
    /\ Len(checks) = generator_runs

\* the turn ended behind the Fallback Agent, with its response
EndsInFallback ==
    /\ prev = "ChitterChatter"
    /\ generation = Some(Text("ChitterChatter", 1))

\* C27: when the turn has ended, a generation is present: the Answer
\* Generator's latest output, whose grounding check and usefulness check
\* have both just passed, or the response of the Fallback Agent, which has
\* replaced any generation before it.
C27_EndsVerifiedOrFallback ==
    node = "END" => (EndsVerified \/ EndsInFallback)

\* the turn ended in Fallback after three generations that failed their
\* verification
C27_Witness ==
    /\ node = "END"
    /\ prev = "ChitterChatter"
    /\ generator_runs = 3
    /\ generation = Some(Text("ChitterChatter", 1))

----------------------------------------------------------------------------
(* C28 *)

\* C28: within a turn, whatever the classifiers answer, the Answer
\* Generator runs at most 5 times, the Query Rewriter at most 2 times and
\* the retriever at most 3 times; the rewriter has run once per counted
\* usefulness failure and the generator once per counted failure and once
\* more at most.
C28_RunsBounded ==
    /\ generator_runs <= 5
    /\ rewriter_runs <= 2
    /\ retriever_runs <= 3
    /\ rewriter_runs <= A
    /\ retriever_runs <= rewriter_runs + 1
    /\ generator_runs <= H + A + 1

\* five generations, two rewrites and three retrievals in one turn
C28_Witness ==
    /\ generator_runs = 5
    /\ rewriter_runs = 2
    /\ retriever_runs = 3
    /\ H = 2
    /\ A = 2

----------------------------------------------------------------------------
(* C29 *)

\* the state holds at least one document
HasDocuments == documents # None /\ documents[1] # <<>>

\* C29: the Answer Generator is never run on an empty documents list: a
\* pass verdict of the grader comes with at least one document it kept,
\* the web search leaves at least one web result in the list whatever the
\* search returned, and the generator starts and ends with a list that is
\* not empty.
C29_GeneratorHasDocuments ==
    /\ (prev = "RelevanceGrader" /\ checker_result = Some("pass")) =>
            HasDocuments
    /\ prev = "WebSearcher" =>
            /\ HasDocuments
            /\ documents[1][Len(documents[1])].source = "web"
    /\ (node = "AnswerGenerator" \/ prev = "AnswerGenerator") => HasDocuments

\* routed to the web search, which left a single entry; the generator has
\* run on it
C29_Witness ==
    /\ prev = "AnswerGenerator"
    /\ route = Some("Websearch")
    /\ generator_runs = 1
    /\ documents = Some(<<WebDoc(1)>>)

----------------------------------------------------------------------------
(* C30 *)

\* C30: when the Fallback Agent has run in a turn whose question was
\* rewritten at least once, it was given the current, rewritten question
\* and not original_question, and original_question holds the question
\* the user asked.
C30_FallbackGetsRewritten ==
    (prev = "ChitterChatter" /\ rewriter_runs >= 1) =>
        /\ used_question = Some(question)
        /\ question \in RewrittenQuestions
        /\ original_question = Some(turn_question)
        /\ used_question # original_question

\* a who-question was rewritten once, the grading of the second retrieval
\* failed and the edge behind the grader led to Fallback
C30_Witness ==
    /\ prev = "ChitterChatter"
    /\ rewriter_runs = 1
    /\ generator_runs = 1
    /\ checker_result = Some("fail")
    /\ turn_question = WhoIsTheTA
    /\ used_question = Some(question)

====
